---- MODULE Spec2Model ----
(***************************************************************************)
(* Model of the LangGraph retry loops of the repository:                   *)
(*   src/yosys_loop_agent.py  generate -> execute -> evaluate -> route     *)
(*   src/number_guesser.py    agent_guess -> evaluate_guess -> route       *)
(*   src/react_agent.py, src/synth_runner.py                               *)
(*                            our_agent -> route -> tools -> our_agent     *)
(* Each program has its own specification (Spec, SpecGuess, SpecAgent);    *)
(* SpecExtract applies extract_script_from_text to bounded texts.  The     *)
(* fields feedback, game_over and message_history exist in both loops.     *)
(* The LLM and the yosys subprocess are the environment: the LLM's reply   *)
(* is drawn from Responses, the subprocess result from ExecResults.        *)
(* Text is modelled line by line: a reply is a sequence of lines, a script *)
(* is the sequence of lines that join() glues together.                    *)
(***************************************************************************)
EXTENDS Integers, Sequences, FiniteSets, TLC

\* ------------------------------------------------------------------ bounds
MaxIterBound == 2      \* max_iterations is drawn from 0..MaxIterBound
MaxUnusable == 2       \* cap on the unusable replies explored in one run
RangeMax == 4          \* the guesser's numbers 1..100, scaled down
MaxAttemptsBound == 3  \* max_attempts is drawn from 1..MaxAttemptsBound
MaxLines == 3          \* lines of a text handed to extract_script_from_text
MaxToolMessages == 3   \* cap on the tool results explored in one agent run
\* more llm.invoke calls than any run makes within the bounds above
MaxRounds == MaxIterBound + MaxUnusable + 1

\* --------------------------------------------------------------- constants
None == "None"
NoneInt == 0 - 1       \* None in a field that otherwise holds an integer
NoneScript == <<None>> \* None in a field that otherwise holds a script

VARIABLES
  keys,               \* keys present in the state dictionary
  verilog_path, output_file,
  iteration, max_iterations,
  current_script, last_script,
  execution_log, last_execution_log, error_details,
  feedback, game_over,
  message_history,
  pc,                 \* node (or router) the graph runs next
  \* AgentState of the number guesser
  target_number, attempt, max_attempts, last_guess, min_range, max_range,
  temp_files,         \* temporary .ys files left on disk by the run
  \* history variables (observations of the run, not program state)
  outcome,            \* result of the most recent execute_yosys_script
  usable,             \* did the most recent generate step extract a script
  nLLM, nExec,        \* llm.invoke calls / execute_yosys_script calls
  nUnusable,          \* replies from which no script was extracted
  allRecoverable,     \* every execution so far was a non-zero exit/timeout
  \* test_script_extraction: the text handed to extract_script_from_text
  \* and the value it returned
  test_input, result,
  \* AgentState of react_agent / synth_runner, and the tools list bound to
  \* the model and to the ToolNode
  messages, tools

stateVars == <<keys, verilog_path, output_file, iteration, max_iterations,
               current_script, last_script, execution_log,
               last_execution_log, error_details, feedback, game_over,
               message_history>>
histVars == <<outcome, usable, nLLM, nExec, nUnusable, allRecoverable>>
guessVars == <<target_number, attempt, max_attempts, last_guess, min_range,
               max_range>>
extractVars == <<test_input, result>>
agentVars == <<messages, tools>>
vars == <<stateVars, pc, histVars, guessVars, temp_files, extractVars,
          agentVars>>

\* ------------------------------------------------- extract_script_from_text
\* line.strip()
strip(line) ==
  CASE line = "  opt" -> "opt"
    [] line = "   " -> ""
    [] OTHER -> line

\* line.startswith of a triple backquote, written <fence> here
IsFence(l) == l \in {"<fence>", "<fence>yosys"}

\* the two section-marker substrings tested on line.lower()
IsSectionMarker(l) == l \in {"Here's the script:", "Yosys synthesis script"}

\* any(skip_word in line.lower() for skip_word in [...])
HasSkipWord(l) ==
  l \in {"Here's the script:", "# adjust the top module", "Note: run stat",
         "You can run it now."}

\* line.startswith of a hash, or any(cmd in line.lower() for cmd in [...])
LooksLikeCommand(l) ==
  l \in {"read_verilog counter.v", "synth -top counter", "opt", "stat",
         "write_verilog out.v", "# adjust the top module", "# synthesis",
         "Note: run stat", "This is optional.", "Yosys synthesis script"}

\* first loop: state is <<script_lines, in_code_block, in_script_section>>
RECURSIVE FirstPass(_, _, _, _)
FirstPass(lines, acc, in_code_block, in_script_section) ==
  IF lines = <<>> THEN acc
  ELSE LET line == strip(Head(lines))
           rest == Tail(lines)
       IN IF IsFence(line)
            THEN FirstPass(rest, acc, ~in_code_block, in_script_section)
          ELSE IF IsSectionMarker(line)
            THEN FirstPass(rest, acc, in_code_block, TRUE)
          ELSE IF HasSkipWord(line)
            THEN FirstPass(rest, acc, in_code_block, in_script_section)
          ELSE IF (in_code_block \/ in_script_section) /\ line # ""
                  /\ LooksLikeCommand(line)
            THEN FirstPass(rest, Append(acc, line), in_code_block,
                           in_script_section)
          ELSE FirstPass(rest, acc, in_code_block, in_script_section)

\* second loop: taken when the first found nothing
RECURSIVE Fallback(_)
Fallback(lines) ==
  IF lines = <<>> THEN <<>>
  ELSE LET line == strip(Head(lines))
       IN IF LooksLikeCommand(line)
            THEN <<line>> \o Fallback(Tail(lines))
            ELSE Fallback(Tail(lines))

\* slip: the second loop over the whole text is missing
extract_script_from_text_NoFallback(text) ==
  FirstPass(text, <<>>, FALSE, FALSE)

extract_script_from_text(text) ==
  LET script_lines == FirstPass(text, <<>>, FALSE, FALSE)
  IN IF script_lines = <<>> THEN Fallback(text) ELSE script_lines

\* replies of the LLM explored by the loop (response.content split into lines)
Responses ==
  { <<"read_verilog counter.v", "synth -top counter">>,
    <<"<fence>yosys", "synth -top counter", "<fence>">>,
    <<"I cannot help with that.">> }

\* what subprocess.run / the temp-file handling can do
ExecResults == {"success", "failure", "timeout", "notfound", "exception"}

Recoverable(r) == r \in {"failure", "timeout"}
Fatal(r) == r \in {"notfound", "exception"}

\* --------------------------------------------------------------- messages
SystemMessage == [type |-> "system", content |-> "expert"]
HumanMessage(c) == [type |-> "human", content |-> c]
AIMessage(r) == [type |-> "ai", content |-> r]

AllKeys ==
  {"verilog_path", "sdc_path", "iteration", "max_iterations",
   "current_script", "last_script", "execution_log", "last_execution_log",
   "feedback", "game_over", "message_history", "output_file",
   "error_details"}

\* os.path.splitext(os.path.basename(path))[0] + "_synthesized_netlist.v"
OutputFileFor(path) ==
  CASE path = "yosys_test/counter.v" -> "counter_synthesized_netlist.v"
    [] path = "alu.sv" -> "alu_synthesized_netlist.v"
    [] OTHER -> "_synthesized_netlist.v"

VerilogPaths == {"yosys_test/counter.v", "alu.sv"}

\* ------------------------------------------------------------------- Init
\* initial_state of run_yosys_script_loop, handed to graph.invoke
Init ==
  /\ keys = AllKeys
  /\ verilog_path \in VerilogPaths
  /\ output_file = ""
  /\ iteration = 0
  /\ max_iterations \in 0..MaxIterBound
  /\ current_script = <<>>
  /\ last_script = NoneScript
  /\ execution_log = ""
  /\ last_execution_log = None
  /\ error_details = ""
  /\ feedback = None
  /\ game_over = FALSE
  /\ message_history = <<>>
  /\ pc = "generate_yosys_script"
  /\ outcome = "Pending"
  /\ usable = FALSE
  /\ nLLM = 0
  /\ nExec = 0
  /\ nUnusable = 0
  /\ allRecoverable = TRUE
  /\ temp_files = 0
  /\ target_number = NoneInt
  /\ attempt = 0
  /\ max_attempts = 0
  /\ last_guess = NoneInt
  /\ min_range = 0
  /\ max_range = 0
  /\ test_input = <<>>
  /\ result = <<>>
  /\ messages = <<>>
  /\ tools = {}

\* ---------------------------------------------------- initialize_yosys_game
\* Only the keys missing from the dictionary get a default.
InitHistory(ks, mh) ==
  IF "message_history" \notin ks THEN <<SystemMessage>> ELSE mh

InitOutputFile(ks, of, vp) ==
  IF "output_file" \notin ks /\ vp # "" THEN OutputFileFor(vp) ELSE of

InitKeys(ks, vp) ==
  ks \cup (AllKeys \ {"verilog_path", "sdc_path", "output_file"})
     \cup (IF vp # "" THEN {"output_file"} ELSE {})

\* ---------------------------------------------------- generate_yosys_script
Prompt(it) == IF it = 0 THEN "generate" ELSE "refine"

\* the HumanMessage holding the prompt: the refinement prompt quotes
\* last_script, last_execution_log and error_details
PromptMessage(it, ls, ll, ed) ==
  IF it = 0 THEN HumanMessage(Prompt(it))
  ELSE [type |-> "human", content |-> Prompt(it), script |-> ls, log |-> ll,
        error |-> ed]

\* slip: the history is rebuilt from the current round alone
GenHistory_LastRoundOnly(mh, prompt, response, script) ==
  LET mh1 == <<prompt, AIMessage(response)>>
  IN IF script = <<>> THEN Append(mh1, HumanMessage("Please generate"))
     ELSE mh1

\* slip: a round without a usable script leaves no trace in the history
GenHistory_DropUnusable(mh, prompt, response, script) ==
  IF script = <<>> THEN mh
  ELSE Append(Append(mh, prompt), AIMessage(response))

\* message_history after the prompt, the reply and, for an unusable reply,
\* the corrective message
GenHistory(mh, prompt, response, script) ==
  LET mh1 == Append(Append(mh, prompt), AIMessage(response))
  IN IF script = <<>> THEN Append(mh1, HumanMessage("Please generate"))
     ELSE mh1

\* slip: the first usable script is never replaced
GenScript_KeepFirst(old, script) == IF old = <<>> THEN script ELSE old

\* current_script and iteration: untouched by the early return
GenScript(old, script) == IF script = <<>> THEN old ELSE script

\* slip: the counter advances before the early return
GenIteration_Always(it, script) == it + 1

GenIteration(it, script) == IF script = <<>> THEN it ELSE it + 1

generate_yosys_script ==
  /\ pc = "generate_yosys_script"
  /\ nLLM < MaxRounds
  /\ \E response \in Responses :
       LET script == extract_script_from_text(response)
       IN /\ script = <<>> => nUnusable < MaxUnusable
          /\ keys' = InitKeys(keys, verilog_path)
          /\ output_file' = InitOutputFile(keys, output_file, verilog_path)
          /\ message_history' =
               GenHistory(InitHistory(keys, message_history),
                          PromptMessage(iteration, last_script,
                                        last_execution_log, error_details),
                          response, script)
          /\ current_script' = GenScript(current_script, script)
          /\ iteration' = GenIteration(iteration, script)
          /\ usable' = (script # <<>>)
          /\ nUnusable' = IF script = <<>> THEN nUnusable + 1 ELSE nUnusable
  /\ nLLM' = nLLM + 1
  \* builder.add_edge("generate_yosys_script", "execute_yosys_script")
  /\ pc' = "execute_yosys_script"
  /\ UNCHANGED <<verilog_path, max_iterations, last_script, execution_log,
                 last_execution_log, error_details, feedback, game_over,
                 outcome, nExec, allRecoverable, guessVars, temp_files,
                 extractVars, agentVars>>

\* ----------------------------------------------------- execute_yosys_script
ExecLog(r) ==
  CASE r = "success" -> "completed successfully"
    [] r = "timeout" -> "timed out after 60 seconds"
    [] r = "failure" -> "failed with return code"
    [] r = "notfound" -> "not installed or not in PATH"
    [] r = "exception" -> "Error running Yosys tool"

ExecErrorDetails(r, old) ==
  CASE r = "success" -> old
    [] r = "timeout" -> "Script execution timed out"
    [] r = "failure" -> "Return code"
    [] r = "notfound" -> "Yosys not found"
    [] r = "exception" -> "str(e)"

ExecFeedback(r) ==
  CASE r = "success" -> "success"
    [] r = "timeout" -> "timeout"
    [] r = "failure" -> "failure"
    [] r = "notfound" -> "error"
    [] r = "exception" -> "error"

\* slip: a fatal error does not end the loop
ExecGameOver_SuccessOnly(r, old) == IF r = "success" THEN TRUE ELSE old

\* slip: the timeout is treated as a terminal state
ExecGameOver_TimeoutEnds(r, old) ==
  IF r \in {"success", "timeout"} \/ Fatal(r) THEN TRUE ELSE old

ExecGameOver(r, old) == IF r = "success" \/ Fatal(r) THEN TRUE ELSE old

\* slip: the last_* copies are taken before the run, not after it
ExecLast_Stale(old, new) == old

\* last_script / last_execution_log: copies of the values of this round
ExecLast(old, new) == new

\* number of temp files the call leaves behind: os.unlink runs on success,
\* timeout and non-zero exit only; an exception raised by subprocess.run
\* skips it, one raised while creating the file leaves nothing
ExecLeaks(r) == IF Fatal(r) THEN {0, 1} ELSE {0}

execute_yosys_script ==
  /\ pc = "execute_yosys_script"
  /\ \E r \in ExecResults :
       /\ feedback' = ExecFeedback(r)
       /\ game_over' = ExecGameOver(r, game_over)
       /\ execution_log' = ExecLog(r)
       /\ error_details' = ExecErrorDetails(r, error_details)
       /\ last_execution_log' = ExecLast(last_execution_log, ExecLog(r))
       /\ outcome' = r
       /\ allRecoverable' = (allRecoverable /\ Recoverable(r))
       /\ \E n \in ExecLeaks(r) : temp_files' = temp_files + n
  /\ last_script' = ExecLast(last_script, current_script)
  /\ nExec' = nExec + 1
  \* builder.add_edge("execute_yosys_script", "evaluate_execution")
  /\ pc' = "evaluate_execution"
  /\ UNCHANGED <<keys, verilog_path, output_file, iteration, max_iterations,
                 current_script, message_history, usable, nLLM, nUnusable,
                 guessVars, extractVars, agentVars>>

\* ------------------------------------------------------- evaluate_execution
\* slip: off-by-one comparison of the round counter with the limit
EvalGameOver_OffByOne(fb, it, mx, old) ==
  IF fb = "success" THEN TRUE
  ELSE IF it > mx THEN TRUE
  ELSE old

EvalGameOver(fb, it, mx, old) ==
  IF fb = "success" THEN TRUE
  ELSE IF it >= mx THEN TRUE
  ELSE old

\* slip: the round limit is tested before the success test
EvalFeedback_LimitFirst(fb, it, mx) ==
  IF it >= mx THEN "max_iterations_reached" ELSE fb

\* slip: the limit branch forgets to set the feedback
EvalFeedback_Keep(fb, it, mx) == fb

EvalFeedback(fb, it, mx) ==
  IF fb = "success" THEN fb
  ELSE IF it >= mx THEN "max_iterations_reached"
  ELSE fb

evaluate_execution ==
  /\ pc = "evaluate_execution"
  /\ game_over' = EvalGameOver(feedback, iteration, max_iterations, game_over)
  /\ feedback' = EvalFeedback(feedback, iteration, max_iterations)
  \* builder.add_conditional_edges("evaluate_execution", ...)
  /\ pc' = "should_continue_yosys"
  /\ UNCHANGED <<keys, verilog_path, output_file, iteration, max_iterations,
                 current_script, last_script, execution_log,
                 last_execution_log, error_details, message_history,
                 histVars, guessVars, temp_files, extractVars, agentVars>>

\* ---------------------------------------------------- should_continue_yosys
\* slip: the router never returns END
RouteYosys_NoEnd(go) == "generate_yosys_script"

RouteYosys(go) == IF go THEN "END" ELSE "generate_yosys_script"

should_continue_yosys ==
  /\ pc = "should_continue_yosys"
  /\ pc' = RouteYosys(game_over)
  /\ UNCHANGED <<stateVars, histVars, guessVars, temp_files, extractVars,
                 agentVars>>

Next ==
  \/ generate_yosys_script
  \/ execute_yosys_script
  \/ evaluate_execution
  \/ should_continue_yosys

Spec == Init /\ [][Next]_vars

\* graph.invoke runs the nodes one after the other until the router returns
\* END: a node that can run does run.  The cap MaxUnusable on unusable
\* replies stands for a proposer that does not fail forever.
SpecLive == Init /\ [][Next]_vars /\ WF_vars(Next)

\* ============================================================ number guesser
\* fields of YosysAgentState that AgentState does not have
yosysOnly == <<keys, verilog_path, output_file, iteration, max_iterations,
               current_script, last_script, execution_log,
               last_execution_log, error_details>>

\* extract_number_from_text(response.content): the first integer of the
\* reply, or None
Guesses == {NoneInt} \cup (0..(RangeMax + 1))

\* initial_state of play_game, handed to graph.invoke
InitGuess ==
  /\ keys = {"target_number", "attempt", "max_attempts", "last_guess",
             "min_range", "max_range", "feedback", "game_over",
             "message_history"}
  /\ verilog_path = ""
  /\ output_file = ""
  /\ iteration = 0
  /\ max_iterations = 0
  /\ current_script = <<>>
  /\ last_script = NoneScript
  /\ execution_log = ""
  /\ last_execution_log = None
  /\ error_details = ""
  /\ feedback = None
  /\ game_over = FALSE
  /\ message_history = <<>>
  /\ pc = "agent_guess"
  /\ outcome = "Pending"
  /\ usable = FALSE
  /\ nLLM = 0
  /\ nExec = 0
  /\ nUnusable = 0
  /\ allRecoverable = TRUE
  /\ temp_files = 0
  /\ target_number = NoneInt
  /\ attempt = 0
  /\ max_attempts \in 1..MaxAttemptsBound
  /\ last_guess = NoneInt
  /\ min_range = 1
  /\ max_range = RangeMax
  /\ test_input = <<>>
  /\ result = <<>>
  /\ messages = <<>>
  /\ tools = {}

\* initialize_game: a missing or None target is drawn at random
InitTargets(t) == IF t = NoneInt THEN 1..RangeMax ELSE {t}

InitGuessHistory(ks, mh) ==
  IF "message_history" \notin ks THEN <<SystemMessage>> ELSE mh

GuessPrompt(at, fb) ==
  IF at = 0 THEN "first guess"
  ELSE IF fb = "higher" THEN "too low"
  ELSE IF fb = "lower" THEN "too high"
  ELSE "make your guess"

InRange(g, lo, hi) == ~(g < lo \/ g > hi)

\* a guess is accepted when a number was found and it lies in the range
GuessUsable(g, lo, hi) == g # NoneInt /\ InRange(g, lo, hi)

\* message_history after the prompt, the reply and, for a rejected reply,
\* the corrective message
GuessHistory(mh, at, fb, guess, lo, hi) ==
  LET mh1 == Append(Append(mh, HumanMessage(GuessPrompt(at, fb))),
                    AIMessage(guess))
  IN IF guess = NoneInt THEN Append(mh1, HumanMessage("Please respond"))
     ELSE IF ~InRange(guess, lo, hi)
       THEN Append(mh1, HumanMessage("outside the valid range"))
     ELSE mh1

\* last_guess and attempt: untouched by the two early returns
GuessLast(old, guess, ok) == IF ok THEN guess ELSE old

GuessAttempt(at, ok) == IF ok THEN at + 1 ELSE at

agent_guess ==
  /\ pc = "agent_guess"
  /\ \E t \in InitTargets(target_number), guess \in Guesses :
       LET ok == GuessUsable(guess, min_range, max_range)
       IN /\ ~ok => nUnusable < MaxUnusable
          /\ target_number' = t
          /\ message_history' =
               GuessHistory(InitGuessHistory(keys, message_history), attempt,
                            feedback, guess, min_range, max_range)
          /\ last_guess' = GuessLast(last_guess, guess, ok)
          /\ attempt' = GuessAttempt(attempt, ok)
          /\ usable' = ok
          /\ nUnusable' = IF ok THEN nUnusable ELSE nUnusable + 1
  /\ nLLM' = nLLM + 1
  \* builder.add_edge("agent_guess", "evaluate_guess")
  /\ pc' = "evaluate_guess"
  /\ UNCHANGED <<yosysOnly, feedback, game_over, max_attempts, min_range,
                 max_range, outcome, nExec, allRecoverable, temp_files,
                 extractVars, agentVars>>

\* slip: the two comparisons are swapped
GuessFeedback_Inverted(g, t) ==
  IF g = t THEN "correct" ELSE IF g > t THEN "higher" ELSE "lower"

\* first if/elif/else of evaluate_guess
GuessFeedback(g, t) ==
  IF g = t THEN "correct" ELSE IF g < t THEN "higher" ELSE "lower"

\* the max-attempts check that closes evaluate_guess
AttemptsExhausted(at, mx, go) == at >= mx /\ ~go

evaluate_guess ==
  /\ pc = "evaluate_guess"
  /\ IF last_guess = NoneInt
       \* None < int raises TypeError: graph.invoke propagates it
       THEN /\ pc' = "raised"
            /\ UNCHANGED <<feedback, game_over, min_range, max_range>>
       ELSE LET fb == GuessFeedback(last_guess, target_number)
                go == (fb = "correct") \/ game_over
            IN /\ min_range' = IF fb = "higher" THEN last_guess + 1
                               ELSE min_range
               /\ max_range' = IF fb = "lower" THEN last_guess - 1
                               ELSE max_range
               /\ game_over' = (go \/ AttemptsExhausted(attempt,
                                                        max_attempts, go))
               /\ feedback' = IF AttemptsExhausted(attempt, max_attempts, go)
                                THEN "max_attempts_reached" ELSE fb
               \* builder.add_conditional_edges("evaluate_guess", ...)
               /\ pc' = "should_continue"
  /\ UNCHANGED <<yosysOnly, message_history, histVars, target_number,
                 attempt, max_attempts, last_guess, temp_files, extractVars,
                 agentVars>>

RouteGuess(go) == IF go THEN "END" ELSE "agent_guess"

should_continue ==
  /\ pc = "should_continue"
  /\ pc' = RouteGuess(game_over)
  /\ UNCHANGED <<stateVars, histVars, guessVars, temp_files, extractVars,
                 agentVars>>

NextGuess ==
  \/ agent_guess
  \/ evaluate_guess
  \/ should_continue

SpecGuess == InitGuess /\ [][NextGuess]_vars

\* ------------------------------------------------------------ both programs
\* either graph, started by its own entry function
InitAll == Init \/ InitGuess

NextAll ==
  \/ generate_yosys_script
  \/ execute_yosys_script
  \/ evaluate_execution
  \/ should_continue_yosys
  \/ agent_guess
  \/ evaluate_guess
  \/ should_continue

SpecAll == InitAll /\ [][NextAll]_vars

\* ==================================================== test_script_extraction
\* lines a reply of the LLM is made of: commands, comments, fences, a
\* heading, prose with and without a keyword inside, padded and blank lines
Lines ==
  {"read_verilog counter.v", "synth -top counter", "  opt",
   "write_verilog out.v", "# synthesis", "# adjust the top module",
   "<fence>", "<fence>yosys", "Here's the script:", "Note: run stat",
   "This is optional.", "That should work!", "   ",
   "Generated Yosys script:"}

\* test_case["input"].split: every text of at most MaxLines lines
Texts == UNION {[1..n -> Lines] : n \in 0..MaxLines}

\* neither loop is running
LoopsIdle ==
  /\ keys = {}
  /\ verilog_path = ""
  /\ output_file = ""
  /\ iteration = 0
  /\ max_iterations = 0
  /\ current_script = <<>>
  /\ last_script = NoneScript
  /\ execution_log = ""
  /\ last_execution_log = None
  /\ error_details = ""
  /\ feedback = None
  /\ game_over = FALSE
  /\ message_history = <<>>
  /\ outcome = "Pending"
  /\ usable = FALSE
  /\ nLLM = 0
  /\ nExec = 0
  /\ nUnusable = 0
  /\ allRecoverable = TRUE
  /\ temp_files = 0
  /\ target_number = NoneInt
  /\ attempt = 0
  /\ max_attempts = 0
  /\ last_guess = NoneInt
  /\ min_range = 0
  /\ max_range = 0

InitExtract ==
  /\ LoopsIdle
  /\ pc = "test_script_extraction"
  /\ test_input \in Texts
  /\ result = <<>>
  /\ messages = <<>>
  /\ tools = {}

\* result = extract_script_from_text(test_case["input"])
test_script_extraction ==
  /\ pc = "test_script_extraction"
  /\ result' = extract_script_from_text(test_input)
  /\ pc' = "extracted"
  /\ UNCHANGED <<stateVars, histVars, guessVars, temp_files, test_input,
                 agentVars>>

NextExtract == test_script_extraction

SpecExtract == InitExtract /\ [][NextExtract]_vars

\* ================================================ react_agent / synth_runner
\* tools = [...] of react_agent.py and of synth_runner.py
ReactAgentTools ==
  {"add", "subtract", "multiply", "yosys_tool", "yosys_script_generator",
   "yosys_script_with_paths", "generate_yosys_script_from_paths",
   "run_yosys_tool"}

SynthRunnerTools == {"generate_yosys_script_from_paths", "run_yosys_tool"}

\* ("user", user_input)
UserMessage == [type |-> "human", name |-> "", tool_calls |-> <<>>]

\* reply of the model bound to the tools: it may ask for tool calls
AgentReply(calls) == [type |-> "ai", name |-> "", tool_calls |-> calls]

ToolMessage(tool) == [type |-> "tool", name |-> tool, tool_calls |-> <<>>]

\* lists of at most n calls of the tools ts
ToolCallLists(ts, n) == UNION {[1..k -> ts] : k \in 0..n}

NumTool(ms) == Cardinality({i \in 1..Len(ms) : ms[i].type = "tool"})

\* inputs of app.stream in interactive_mode: one user message
InitAgent ==
  /\ LoopsIdle
  /\ pc = "our_agent"
  /\ tools \in {ReactAgentTools, SynthRunnerTools}
  /\ messages = <<UserMessage>>
  /\ test_input = <<>>
  /\ result = <<>>

\* model_call: the strict instruction only changes the system prompt sent
\* along; the reply is appended by the add_messages reducer
model_call ==
  /\ pc = "our_agent"
  /\ \E calls \in ToolCallLists(tools, MaxToolMessages - NumTool(messages)) :
       messages' = Append(messages, AgentReply(calls))
  \* graph.add_conditional_edges("our_agent", should_continue, ...)
  /\ pc' = "should_continue_agent"
  /\ UNCHANGED <<stateVars, histVars, guessVars, temp_files, extractVars,
                 tools>>

\* slip: the router ends the run whatever the last message asks for
AgentRoute_AlwaysEnd(last_message) == "END"

\* should_continue of react_agent.py and synth_runner.py, through the
\* mapping continue -> tools, end -> END
AgentRoute(last_message) ==
  IF last_message.tool_calls = <<>> THEN "END" ELSE "tools"

should_continue_agent ==
  /\ pc = "should_continue_agent"
  /\ pc' = AgentRoute(messages[Len(messages)])
  /\ UNCHANGED <<stateVars, histVars, guessVars, temp_files, extractVars,
                 agentVars>>

\* ToolNode: one ToolMessage for each tool call of the last message
ToolResults(calls) == [i \in 1..Len(calls) |-> ToolMessage(calls[i])]

tool_node ==
  /\ pc = "tools"
  /\ messages' = messages \o ToolResults(messages[Len(messages)].tool_calls)
  \* graph.add_edge("tools", "our_agent")
  /\ pc' = "our_agent"
  /\ UNCHANGED <<stateVars, histVars, guessVars, temp_files, extractVars,
                 tools>>

NextAgent ==
  \/ model_call
  \/ should_continue_agent
  \/ tool_node

SpecAgent == InitAgent /\ [][NextAgent]_vars

\* =================================================================== claims
AfterEvaluate == pc \in {"should_continue_yosys", "END"}

\* C1: for max_iterations >= 1, execute_yosys_script is invoked at most
\* max_iterations times, whatever the LLM and the executions return.
C1_ExecAtMostLimit == max_iterations >= 1 => nExec <= max_iterations

\* C2: once execute_yosys_script has succeeded on round k, 1 <= k <=
\* max_iterations, the loop ends with feedback success (not
\* max_iterations_reached), iteration stays k, and no generate or execute
\* step follows.
C2_SuccessEndsLoop ==
  /\ []((outcome = "success" /\ 1 <= iteration
                             /\ iteration <= max_iterations)
          => /\ pc \in {"evaluate_execution", "should_continue_yosys", "END"}
             /\ game_over
             /\ AfterEvaluate => feedback = "success")
  /\ [][(outcome = "success" /\ 1 <= iteration
                             /\ iteration <= max_iterations)
          => /\ iteration' = iteration
             /\ nLLM' = nLLM
             /\ nExec' = nExec]_vars

C2_Witness ==
  /\ pc = "END"
  /\ outcome = "success"
  /\ iteration = max_iterations
  /\ iteration >= 2

\* C3: after a fatal condition in execute_yosys_script (yosys missing or any
\* other exception) the loop stops with no further generate or execute step
\* and the feedback reported at the end is error.
C3_FatalReported ==
  (Fatal(outcome) /\ usable /\ 1 <= iteration /\ iteration <= max_iterations)
    =>/\ pc \in {"evaluate_execution", "should_continue_yosys", "END"}
       /\ game_over
       /\ AfterEvaluate => feedback = "error"

\* C4: when max_iterations rounds in a row each had a usable script and a
\* recoverable execution failure, the evaluation ends the loop with
\* max_iterations_reached and iteration = max_iterations.
C4_BudgetExhausted ==
  (AfterEvaluate /\ nUnusable = 0 /\ allRecoverable
                 /\ nExec = max_iterations)
    => /\ game_over
       /\ feedback = "max_iterations_reached"
       /\ iteration = max_iterations

C4_Witness ==
  /\ pc = "END"
  /\ nUnusable = 0
  /\ allRecoverable
  /\ nExec = max_iterations
  /\ max_iterations >= 2

\* C5: with max_iterations = 0 the LLM is never invoked, the script is never
\* executed, iteration stays 0, and the run ends with
\* max_iterations_reached.
C5_ZeroLimitNoCalls ==
  max_iterations = 0
    => /\ nLLM = 0
       /\ nExec = 0
       /\ iteration = 0
       /\ pc = "END" => feedback = "max_iterations_reached"

\* C6: game_over never goes back to false, and no generate or execute step
\* is taken from a state in which game_over is true.
C6_GameOverSticky ==
  /\ [](game_over
          => pc \notin {"generate_yosys_script", "execute_yosys_script"})
  /\ [][game_over => game_over']_vars

C6_Witness ==
  /\ game_over
  /\ pc = "evaluate_execution"
  /\ iteration < max_iterations

\* C7: after every evaluate_execution step, game_over holds exactly when
\* the latest execution succeeded, or was fatal, or iteration >=
\* max_iterations.
C7_GameOverIff ==
  pc = "should_continue_yosys"
    => (game_over <=> \/ outcome = "success"
                      \/ Fatal(outcome)
                      \/ iteration >= max_iterations)

C7_Witness ==
  /\ pc = "should_continue_yosys"
  /\ game_over
  /\ Fatal(outcome)
  /\ iteration < max_iterations

\* C8: max_iterations is never modified, and after every evaluation step
\* iteration <= max_iterations.
C8_CounterWithinLimit ==
  /\ [](AfterEvaluate => iteration <= max_iterations)
  /\ [][max_iterations' = max_iterations]_vars

\* C9: when the loop has returned, game_over is true and feedback is one of
\* success, error, max_iterations_reached.
C9_TerminationReason ==
  pc = "END"
    => /\ game_over
       /\ feedback \in {"success", "error", "max_iterations_reached"}

C9_Witness ==
  /\ pc = "END"
  /\ feedback = "max_iterations_reached"
  /\ Recoverable(outcome)

\* C10: execute_yosys_script is entered only after a generate step that
\* produced a usable, non-empty script in the same round.
C10_ExecuteOnlyUsable ==
  pc = "execute_yosys_script" => (usable /\ current_script # <<>>)

\* content of the most recent reply of the LLM in a message list
RECURSIVE LastAI(_)
LastAI(mh) ==
  IF mh[Len(mh)].type = "ai" THEN mh[Len(mh)].content
  ELSE LastAI(SubSeq(mh, 1, Len(mh) - 1))

\* C11: the round counter starts at 0; a proposal step adds exactly 1 when
\* the reply is usable and otherwise leaves the counter and the stored
\* candidate (current_script, last_guess) unchanged; no other step changes
\* the counter.
C11_CounterStep ==
  /\ [](nLLM = 0 => (iteration = 0 /\ attempt = 0))
  /\ [][/\ (pc = "generate_yosys_script"
              /\ message_history' # message_history)
            => IF extract_script_from_text(LastAI(message_history')) # <<>>
                 THEN iteration' = iteration + 1
                 ELSE /\ iteration' = iteration
                      /\ current_script' = current_script
        /\ (pc = "agent_guess" /\ message_history' # message_history)
            => LET g == LastAI(message_history')
               IN IF g # NoneInt /\ g >= min_range /\ g <= max_range
                    THEN attempt' = attempt + 1
                    ELSE /\ attempt' = attempt
                         /\ last_guess' = last_guess
        /\ pc \notin {"generate_yosys_script", "agent_guess"}
            => (iteration' = iteration /\ attempt' = attempt)]_vars

C11_Witness ==
  /\ pc = "execute_yosys_script"
  /\ ~usable
  /\ iteration >= 1
  /\ current_script # <<>>

\* the corrective re-prompt appended after an unusable reply
IsCorrective(m) == m.type = "human" /\ m.content = "Please generate"

\* C12: an unusable reply gets exactly one corrective re-prompt; a second
\* unusable reply in a row is not re-prompted again (the round is closed as
\* a recoverable failure instead), so no corrective message is followed by
\* a prompt, a reply and another corrective message.
C12_OneRetryCap ==
  \A i \in 1..Len(message_history) :
    (IsCorrective(message_history[i]) /\ i + 3 <= Len(message_history))
      => ~IsCorrective(message_history[i + 3])

\* C13: after an execution that ended in a non-zero exit or in the timeout,
\* with iteration < max_iterations, game_over stays false through the
\* evaluation and the router hands control to generate_yosys_script.
C13_RecoverableContinues ==
  /\ []((Recoverable(outcome) /\ iteration < max_iterations
           /\ pc \in {"evaluate_execution", "should_continue_yosys",
                      "generate_yosys_script"})
          => ~game_over)
  /\ [][(pc = "should_continue_yosys" /\ Recoverable(outcome)
           /\ iteration < max_iterations)
          => pc' = "generate_yosys_script"]_vars

C13_Witness ==
  /\ pc = "generate_yosys_script"
  /\ outcome = "timeout"
  /\ iteration >= 1
  /\ ~game_over

\* rounds recorded in the history: one LLM reply each
NumAI(mh) == Cardinality({i \in 1..Len(mh) : mh[i].type = "ai"})

NumCorrective(mh) == Cardinality({i \in 1..Len(mh) : IsCorrective(mh[i])})

C15_TempFilesDeleted == pc = "END" => temp_files = 0

\* C16: for max_iterations >= 1, when the proposer does not return unusable
\* replies forever, the loop eventually ends with game_over; it has then
\* stopped on success, on a fatal error or on the exhausted budget, and no
\* more than max_iterations usable rounds were run.
C16_EventuallyGameOver ==
  max_iterations >= 1
    => /\ <>(pc = "END" /\ game_over)
       /\ [](iteration <= max_iterations)
       /\ [](game_over => \/ outcome = "success"
                          \/ Fatal(outcome)
                          \/ iteration >= max_iterations)

C16_Witness ==
  /\ pc = "END"
  /\ game_over
  /\ nUnusable = MaxUnusable
  /\ iteration = max_iterations
  /\ max_iterations >= 2

\* C17: no expected outcome (unusable or invalid proposal, failed or timed
\* out execution, missing tool, exhausted budget) makes either graph raise:
\* the run never ends in an exception.
C17_NeverRaises == pc # "raised"

\* every reply so far was unusable and no execution succeeded or was fatal
OnlyUnusableSoFar == nLLM = nUnusable /\ allRecoverable

\* C19 as stated: while the LLM has returned no usable script and no
\* execution has succeeded or been fatal, iteration stays 0 and the loop
\* does not terminate.
C19_RepromptsForever ==
  OnlyUnusableSoFar => (iteration = 0 /\ ~game_over /\ pc # "END")

\* C19 amended: the same for max_iterations >= 1.
C19_RepromptsForeverPositiveLimit ==
  (max_iterations >= 1 /\ OnlyUnusableSoFar)
    => (iteration = 0 /\ ~game_over /\ pc # "END")

C19_Witness ==
  /\ max_iterations >= 1
  /\ OnlyUnusableSoFar
  /\ nUnusable = MaxUnusable
  /\ pc = "generate_yosys_script"

\* the most recent prompt in a message list (corrective messages skipped)
RECURSIVE LastPrompt(_)
LastPrompt(mh) ==
  IF mh[Len(mh)].type = "human" /\ ~IsCorrective(mh[Len(mh)])
    THEN mh[Len(mh)]
    ELSE LastPrompt(SubSeq(mh, 1, Len(mh) - 1))

\* C20: last_script and last_execution_log are None until the first
\* execution; after every execute_yosys_script step they are the script
\* just executed and its log; every refinement prompt (iteration >= 1)
\* quotes the script, log and error details of the most recent execution,
\* and that execution was a failure.
C20_LastRoundFeedback ==
  /\ [](nExec = 0 => (last_script = NoneScript /\ last_execution_log = None))
  /\ [](pc = "evaluate_execution"
          => /\ last_script = current_script
             /\ last_execution_log = ExecLog(outcome)
             /\ last_execution_log = execution_log)
  /\ [][(pc = "generate_yosys_script" /\ iteration >= 1
           /\ message_history' # message_history)
          => LET p == LastPrompt(message_history')
             IN /\ p.content = "refine"
                /\ Recoverable(outcome)
                /\ p.script = current_script
                /\ p.log = ExecLog(outcome)
                /\ p.error = ExecErrorDetails(outcome, "")]_vars

C20_Witness ==
  /\ pc = "execute_yosys_script"
  /\ iteration = 2
  /\ nUnusable >= 1
  /\ LastPrompt(message_history).content = "refine"

\* the script extracted from the most recent usable reply in a message list,
\* empty when no reply was usable
RECURSIVE LastUsableScript(_)
LastUsableScript(mh) ==
  IF mh = <<>> THEN <<>>
  ELSE LET m == mh[Len(mh)]
           before == SubSeq(mh, 1, Len(mh) - 1)
       IN IF m.type = "ai"
            THEN IF extract_script_from_text(m.content) # <<>>
                   THEN extract_script_from_text(m.content)
                   ELSE LastUsableScript(before)
            ELSE LastUsableScript(before)

\* C21: current_script is empty exactly while iteration = 0; once a usable
\* script has been stored it is non-empty and equals the script of the most
\* recent usable reply.
C21_CurrentScript ==
  /\ (current_script = <<>>) <=> (iteration = 0)
  /\ current_script = LastUsableScript(message_history)

C21_Witness ==
  /\ pc = "execute_yosys_script"
  /\ iteration = 2
  /\ current_script = <<"synth -top counter">>
  /\ last_script = <<"read_verilog counter.v", "synth -top counter">>

\* list a is an initial segment of list b, message by message
IsPrefix(a, b) ==
  /\ Len(a) <= Len(b)
  /\ \A i \in 1..Len(a) : a[i].type = b[i].type /\ a[i] = b[i]

\* C22: message_history is append-only in both loops: after every step the
\* history before the step is a prefix of the history after it.
C22_AppendOnly == [][IsPrefix(message_history, message_history')]_vars

C22_Witness ==
  /\ pc \in {"execute_yosys_script", "evaluate_guess"}
  /\ Len(message_history) >= 5
  /\ nUnusable >= 1
  /\ usable

\* a stripped line that is a Yosys command or a comment of the script
IsYosysCommand(l) ==
  l \in {"read_verilog counter.v", "synth -top counter", "opt",
         "write_verilog out.v", "# synthesis", "# adjust the top module"}

\* the command and comment lines of a text, stripped, in their order
RECURSIVE CommandLines(_)
CommandLines(lines) ==
  IF lines = <<>> THEN <<>>
  ELSE IF IsYosysCommand(strip(Head(lines)))
    THEN <<strip(Head(lines))>> \o CommandLines(Tail(lines))
    ELSE CommandLines(Tail(lines))

\* C23: extract_script_from_text returns exactly the command and comment
\* lines of the response, in their order, with fences, headings and prose
\* removed, whether the commands are bare, fenced or under a heading; no
\* command line is dropped.
C23_ExactlyTheCommands ==
  pc = "extracted" => result = CommandLines(test_input)

\* C24: when the Yosys loop ends with feedback success, iteration >= 1 and
\* current_script is a non-empty script proposed by the LLM in the round
\* that was just executed: success is never reported for 0 iterations or
\* for an empty script.
C24_SuccessHasScript ==
  (pc = "END" /\ feedback = "success" /\ max_iterations >= 1)
    => /\ iteration >= 1
       /\ current_script # <<>>
       /\ last_script = current_script

\* C25: from the first prompt onwards output_file is the name derived from
\* verilog_path, and no later step changes it.
C25_OutputFileSet ==
  /\ [](nLLM >= 1 => output_file = OutputFileFor(verilog_path))
  /\ [][nLLM >= 1 => output_file' = output_file]_vars

\* C26: every evaluate_guess step evaluates a guess accepted by the
\* agent_guess step just before it: it never runs with last_guess unset and
\* never after a rejected reply.
C26_EvaluateAcceptedGuess ==
  pc = "evaluate_guess" => (usable /\ last_guess # NoneInt)

\* C27: once the target is chosen, min_range <= target_number <= max_range
\* in every reachable state of the number guesser.
C27_TargetInRange ==
  target_number # NoneInt
    => (min_range <= target_number /\ target_number <= max_range)

C27_Witness ==
  /\ pc = "agent_guess"
  /\ ~game_over
  /\ min_range = target_number
  /\ max_range = target_number
  /\ attempt >= 2

\* C28: the message list handed to llm.invoke on every call begins with the
\* system message of the initializer.
C28_SystemMessageFirst ==
  nLLM >= 1 => message_history[1].type = "system"

\* C29: extract_script_from_text returns the empty script exactly when no
\* stripped line of the response starts with a hash or contains a command
\* keyword.
C29_EmptyIffNoCommand ==
  pc = "extracted"
    => ((result = <<>>)
          <=> \A i \in 1..Len(test_input) :
                ~LooksLikeCommand(strip(test_input[i])))

C29_Witness ==
  /\ pc = "extracted"
  /\ result # <<>>
  /\ FirstPass(test_input, <<>>, FALSE, FALSE) = <<>>
  /\ \E i \in 1..Len(test_input) : IsFence(test_input[i])

\* the last message of the agent run
LastMessage == messages[Len(messages)]

\* C30: in the tool-calling graph the tools node runs only right after a
\* model message that holds tool calls, every tools step hands over to the
\* model, and the run ends exactly when the latest model message holds no
\* tool call: never on a tool result, never on an unanswered request.
C30_ToolLoopShape ==
  /\ [](pc = "tools"
          => (LastMessage.type = "ai" /\ LastMessage.tool_calls # <<>>))
  /\ [][pc = "tools" => pc' = "our_agent"]_vars
  /\ [][pc = "should_continue_agent"
          => (pc' = "END" <=> LastMessage.tool_calls = <<>>)]_vars
  /\ [](pc = "END"
          => (LastMessage.type = "ai" /\ LastMessage.tool_calls = <<>>))

C30_Witness ==
  /\ pc = "END"
  /\ NumTool(messages) = MaxToolMessages
  /\ NumAI(messages) >= 3

====
